---- MODULE Spec2Model ----
(***************************************************************************)
(* Model of the uuv_control package: the PID engine, the four axis         *)
(* controllers, the Pixhawk link wrapper and the run / shutdown            *)
(* sequencing of UUVControlSystem.                                         *)
(*                                                                         *)
(* Arithmetic.  The clock is counted in ticks of 0.0001 s, the minimum     *)
(* delta time of PIDController.compute.  Measurements are whole pixels.    *)
(* PIDController.integral is kept in pixel*ticks, so it is an exact        *)
(* integer.  A PID output is kept as an exact rational in mixed form       *)
(* [fl, fr, den], meaning fl + fr/den with 0 <= fr < den.                  *)
(***************************************************************************)
EXTENDS Integers, Sequences, FiniteSets, TLC

\* ------------------------------------------------------------------ bounds
MaxCycles == 2
MaxSig == 2
MaxCalls == 2

\* --------------------------------------------------------------- constants
TicksPerSec == 10000
neutral_pwm == 1500
min_pwm == 1100
max_pwm == 1900
max_output == 200
min_output == 0 - 200
target_area == 20000
frame_width == 640
frame_height == 480

Axes == {"forward", "yaw", "lateral", "throttle"}

\* Gains as exact fractions n/d of the literals passed to PIDController.
Gains(axis) ==
    CASE axis = "forward" ->
           [kpN |-> 1, kpD |-> 50, kiN |-> 1, kiD |-> 2000,
            kdN |-> 1, kdD |-> 100, deadband |-> 200]
      [] axis = "yaw" ->
           [kpN |-> 5, kpD |-> 1, kiN |-> 1, kiD |-> 40,
            kdN |-> 1, kdD |-> 1, deadband |-> 2]
      [] axis = "lateral" ->
           [kpN |-> 2, kpD |-> 1, kiN |-> 1, kiD |-> 50,
            kdN |-> 2, kdD |-> 5, deadband |-> 15]
      [] axis = "throttle" ->
           [kpN |-> 2, kpD |-> 1, kiN |-> 1, kiD |-> 50,
            kdN |-> 2, kdD |-> 5, deadband |-> 15]

\* ------------------------------------------------------ rational helpers
Abs(x) == IF x < 0 THEN 0 - x ELSE x

RECURSIVE GCD(_, _)
GCD(a, b) == IF b = 0 THEN a ELSE GCD(b, a % b)

LCM(a, b) == (a \div GCD(a, b)) * b

\* The rational n/d as a part of a sum over the denominator L (d divides L).
Whole(n, d) == n \div d
FracOver(n, d, L) == (n % d) * (L \div d)

\* kp*error + ki*integral + kd*derivative, exactly, in mixed form.
\* integral is in pixel*ticks, dt in ticks, derivative = (e - prev) / dt.
RawOutput(g, e, integral, prev, dt) ==
    LET pN == g.kpN * e
        pD == g.kpD
        iN == g.kiN * integral
        iD == g.kiD * TicksPerSec
        dN == g.kdN * (e - prev) * TicksPerSec
        dD == g.kdD * dt
        L  == LCM(LCM(pD, iD), dD)
        fs == FracOver(pN, pD, L) + FracOver(iN, iD, L) + FracOver(dN, dD, L)
    IN  [fl  |-> Whole(pN, pD) + Whole(iN, iD) + Whole(dN, dD) + (fs \div L),
         fr  |-> fs % L,
         den |-> L]

IntOut(n) == [fl |-> n, fr |-> 0, den |-> 1]

\* The same rational with its fraction in lowest terms.
Reduce(o) ==
    IF o.fr = 0 THEN IntOut(o.fl)
    ELSE LET g == GCD(o.fr, o.den)
         IN  [fl |-> o.fl, fr |-> o.fr \div g, den |-> o.den \div g]

Above(o, bound) == o.fl > bound \/ (o.fl = bound /\ o.fr > 0)
Below(o, bound) == o.fl < bound

\* ------------------------------------------------------------ PID engine
\* PIDController.__init__ at clock reading t.
NewPID(t) ==
    [previous_error |-> 0, integral |-> 0, last_time |-> t,
     in_deadband |-> FALSE]

\* dt = current_time - last_time; if dt <= 0: dt = 0.0001
DeltaT(p, current_time) ==
    LET dt == current_time - p.last_time
    IN  IF dt <= 0 THEN 1 ELSE dt

\* Mutant: the deadband edge is left outside the deadband.
InDeadband_Strict(g, error) == Abs(error) < g.deadband

\* if abs(error) <= deadband: error = 0
InDeadband(g, error) == Abs(error) <= g.deadband

\* Mutant: a clock that has not advanced makes compute return 0 at once,
\* as the PID of center.py does.
Compute_EarlyReturn(g, p, error, current_time) ==
    IF current_time - p.last_time <= 0
    THEN [pid |-> p, output |-> IntOut(0)]
    ELSE
    LET dt   == DeltaT(p, current_time)
        db   == InDeadband(g, error)
        e    == IF db THEN 0 ELSE error
        i0   == IF db THEN 0 ELSE p.integral
        i1   == i0 + e * dt
        raw  == RawOutput(g, e, i1, p.previous_error, dt)
        hi   == Above(raw, max_output)
        lo   == ~hi /\ Below(raw, min_output)
        out1 == IF hi THEN IntOut(max_output)
                ELSE IF lo THEN IntOut(min_output) ELSE raw
        i2   == IF hi \/ lo THEN i1 - e * dt ELSE i1
    IN  [pid |-> [previous_error |-> e, integral |-> i2,
                  last_time |-> current_time, in_deadband |-> db],
         output |-> out1]

\* Mutant: the output is clamped but the integral step is not undone.
Compute_NoUndo(g, p, error, current_time) ==
    LET dt   == DeltaT(p, current_time)
        db   == InDeadband(g, error)
        e    == IF db THEN 0 ELSE error
        i0   == IF db THEN 0 ELSE p.integral
        i1   == i0 + e * dt
        raw  == RawOutput(g, e, i1, p.previous_error, dt)
        hi   == Above(raw, max_output)
        lo   == ~hi /\ Below(raw, min_output)
        out1 == IF hi THEN IntOut(max_output)
                ELSE IF lo THEN IntOut(min_output) ELSE raw
    IN  [pid |-> [previous_error |-> e, integral |-> i1,
                  last_time |-> current_time, in_deadband |-> db],
         output |-> out1]

\* Mutant: inside the deadband the integral is not reset.
Compute_KeepIntegral(g, p, error, current_time) ==
    LET dt   == DeltaT(p, current_time)
        db   == InDeadband(g, error)
        e    == IF db THEN 0 ELSE error
        i0   == p.integral
        i1   == i0 + e * dt
        raw  == RawOutput(g, e, i1, p.previous_error, dt)
        hi   == Above(raw, max_output)
        lo   == ~hi /\ Below(raw, min_output)
        out1 == IF hi THEN IntOut(max_output)
                ELSE IF lo THEN IntOut(min_output) ELSE raw
        i2   == IF hi \/ lo THEN i1 - e * dt ELSE i1
    IN  [pid |-> [previous_error |-> e, integral |-> i2,
                  last_time |-> current_time, in_deadband |-> db],
         output |-> out1]

\* Mutant: inside the deadband the error is not forced to zero.
Compute_KeepError(g, p, error, current_time) ==
    LET dt   == DeltaT(p, current_time)
        db   == InDeadband(g, error)
        e    == error
        i0   == IF db THEN 0 ELSE p.integral
        i1   == i0 + e * dt
        raw  == RawOutput(g, e, i1, p.previous_error, dt)
        hi   == Above(raw, max_output)
        lo   == ~hi /\ Below(raw, min_output)
        out1 == IF hi THEN IntOut(max_output)
                ELSE IF lo THEN IntOut(min_output) ELSE raw
        i2   == IF hi \/ lo THEN i1 - e * dt ELSE i1
    IN  [pid |-> [previous_error |-> e, integral |-> i2,
                  last_time |-> current_time, in_deadband |-> db],
         output |-> out1]

\* Mutant: the integral step is undone at the limits but the raw output is
\* returned as it is.
Compute_NoClamp(g, p, error, current_time) ==
    LET dt   == DeltaT(p, current_time)
        db   == InDeadband(g, error)
        e    == IF db THEN 0 ELSE error
        i0   == IF db THEN 0 ELSE p.integral
        i1   == i0 + e * dt
        raw  == RawOutput(g, e, i1, p.previous_error, dt)
        hi   == Above(raw, max_output)
        lo   == ~hi /\ Below(raw, min_output)
        i2   == IF hi \/ lo THEN i1 - e * dt ELSE i1
    IN  [pid |-> [previous_error |-> e, integral |-> i2,
                  last_time |-> current_time, in_deadband |-> db],
         output |-> raw]

\* PIDController.compute(error) read at clock current_time:
\* the new PID state and the returned output.
Compute(g, p, error, current_time) ==
    LET dt   == DeltaT(p, current_time)
        db   == InDeadband(g, error)
        e    == IF db THEN 0 ELSE error
        i0   == IF db THEN 0 ELSE p.integral
        i1   == i0 + e * dt
        raw  == RawOutput(g, e, i1, p.previous_error, dt)
        hi   == Above(raw, max_output)
        lo   == ~hi /\ Below(raw, min_output)
        out  == IF hi THEN IntOut(max_output)
                ELSE IF lo THEN IntOut(min_output) ELSE raw
        i2   == IF hi \/ lo THEN i1 - e * dt ELSE i1
    IN  [pid |-> [previous_error |-> e, integral |-> i2,
                  last_time |-> current_time, in_deadband |-> db],
         output |-> out]

\* ------------------------------------------------------- axis controllers
target_center_x == frame_width \div 2
target_center_y == frame_height \div 2

\* One entry of the list made by ImageProcessor.calculate_marker_info:
\* area, the right (SAG) and left (SOL) edge lengths, and the centre.
Marker(area, sol, sag, cx, cy) ==
    [area |-> area, SOL |-> sol, SAG |-> sag, cx |-> cx, cy |-> cy]

\* if not marker_info: (None and the empty list alike)
NoMarker(marker_info) == marker_info = <<>>

\* Mutant: the forward error is current_area - target_area.
AxisError_AreaMinusTarget(axis, info) ==
    CASE axis = "forward"  -> info.area - target_area
      [] axis = "yaw"      -> info.SAG - info.SOL
      [] axis = "lateral"  -> info.cx - target_center_x
      [] axis = "throttle" -> info.cy - target_center_y

\* The error each controller derives from info = marker_info[0].
AxisError(axis, info) ==
    CASE axis = "forward"  -> target_area - info.area
      [] axis = "yaw"      -> info.SAG - info.SOL
      [] axis = "lateral"  -> info.cx - target_center_x
      [] axis = "throttle" -> info.cy - target_center_y

\* neutral_pwm + pid_output, or neutral_pwm - pid_output for the throttle,
\* as an exact rational.
Negate(o) ==
    IF o.fr = 0 THEN [fl |-> 0 - o.fl, fr |-> 0, den |-> o.den]
    ELSE [fl |-> 0 - o.fl - 1, fr |-> o.den - o.fr, den |-> o.den]

Signed(axis, o) == IF axis = "throttle" THEN Negate(o) ELSE o

\* int(x): truncation toward zero.
TruncInt(o) == IF o.fl < 0 /\ o.fr > 0 THEN o.fl + 1 ELSE o.fl

Max(a, b) == IF a >= b THEN a ELSE b
Min(a, b) == IF a <= b THEN a ELSE b

\* Mutant: the clamp is applied to the PID output, not to the PWM.
ToPwm_ClampOutput(axis, o) ==
    neutral_pwm + Max(min_pwm, Min(max_pwm, TruncInt(Signed(axis, o))))

\* max(min_pwm, min(max_pwm, int(neutral_pwm +/- pid_output)))
ToPwm(axis, o) ==
    LET s == Signed(axis, o)
        x == [fl |-> neutral_pwm + s.fl, fr |-> s.fr, den |-> s.den]
    IN  Max(min_pwm, Min(max_pwm, TruncInt(x)))

\* Mutant: without a marker the controller runs the PID on a zero error.
CalculateControl_NoFreeze(axis, p, marker_info, t) ==
    LET c == Compute(Gains(axis), p,
                     IF NoMarker(marker_info) THEN 0
                     ELSE AxisError(axis, marker_info[1]), t)
        w == ToPwm(axis, c.output)
    IN  [pid |-> c.pid, pwm |-> w, ret |-> w, computed |-> TRUE,
         output |-> Reduce(c.output)]

\* Mutant: the controller takes the last element of the detection list.
CalculateControl_LastMarker(axis, p, marker_info, t) ==
    IF NoMarker(marker_info)
    THEN [pid |-> p, pwm |-> neutral_pwm, ret |-> neutral_pwm,
          computed |-> FALSE, output |-> IntOut(0)]
    ELSE LET c == Compute(Gains(axis), p,
                          AxisError(axis, marker_info[Len(marker_info)]), t)
             w == ToPwm(axis, c.output)
         IN  [pid |-> c.pid, pwm |-> w, ret |-> w, computed |-> TRUE,
              output |-> Reduce(c.output)]

\* calculate_control(marker_info) of one controller whose PID state is p,
\* with the clock reading t: the new PID state, the stored PWM, the
\* returned PWM and the pid_output it was made from (in lowest terms).
CalculateControl(axis, p, marker_info, t) ==
    IF NoMarker(marker_info)
    THEN [pid |-> p, pwm |-> neutral_pwm, ret |-> neutral_pwm,
          computed |-> FALSE, output |-> IntOut(0)]
    ELSE LET c == Compute(Gains(axis), p, AxisError(axis, marker_info[1]), t)
             w == ToPwm(axis, c.output)
         IN  [pid |-> c.pid, pwm |-> w, ret |-> w, computed |-> TRUE,
              output |-> Reduce(c.output)]

\* get_status() of an axis controller holding PID state p and PWM w: the
\* stored PWM and the in_deadband flag of its PID as the last compute
\* call left it (the direction string is derived from the PWM alone).
GetStatus(p, w) == [pwm |-> w, in_deadband |-> p.in_deadband]

\* --------------------------------------------------------------- inputs
\* Change of the clock between two readings, in ticks of 0.0001 s: the
\* wall clock stood still, was set back by 5 ms, or advanced by 70 ms.
DtSet == {0 - 50, 0, 700}

M1 == Marker(20000, 100, 100, 320, 240)
M2 == Marker(20201, 103, 100, 336, 256)
M3 == Marker(19799, 100, 103, 304, 224)
M4 == Marker(20200, 100,  98, 335, 225)
M5 == Marker( 5000,  60, 120, 600,  20)
M6 == Marker(40000, 150,  90,  40, 460)

\* What calculate_marker_info can hand to the controllers: None (written
\* <<>>) or a non-empty list.
Detections ==
    {<<>>, <<M1>>, <<M2>>, <<M3>>, <<M4>>, <<M5>>, <<M6>>,
     <<M2, M5>>, <<M4, M6>>}

\* ---------------------------------------------------------- Pixhawk link
\* PixhawkConnection.__init__
NewPixhawk == [master |-> FALSE, connected |-> FALSE, armed |-> FALSE]

Usable(px) == px.connected /\ px.master

ZeroCmd == <<0, 0, 0, 0, 0, 0, 0, 0>>

\* send_rc_override(channels): the list handed to the link, <<>> when the
\* call returns False before reaching the link.
SendRcOverride(px, channels) ==
    IF ~Usable(px) THEN <<>>
    ELSE [i \in 1..8 |-> IF i <= Len(channels) THEN channels[i] ELSE 0]

\* disarm(): outcome "ok" stands for a confirmed disarm and for the 3 s
\* timeout (both clear armed), "raise" for the link raising in the send.
DisarmOutcomes == {"ok", "raise"}

Disarm(px, outcome) ==
    IF ~Usable(px) THEN [px |-> px, events |-> <<>>]
    ELSE [px |-> IF outcome = "ok" THEN [px EXCEPT !.armed = FALSE] ELSE px,
          events |-> <<"disarm">>]

\* disconnect(): zero the override, disarm when armed, drop the link.
Disconnect(px, outcome) ==
    IF ~px.master THEN [px |-> px, events |-> <<>>]
    ELSE LET z == IF SendRcOverride(px, ZeroCmd) = ZeroCmd
                  THEN <<"zero">> ELSE <<>>
             d == IF px.armed THEN Disarm(px, outcome)
                  ELSE [px |-> px, events |-> <<>>]
         IN  [px |-> [d.px EXCEPT !.master = FALSE, !.connected = FALSE],
              events |-> z \o d.events \o <<"disconnect">>]

\* ------------------------------------------------------------- the system
VARIABLES
    pc,             \* position of the main thread
    ctx,            \* who called the shutdown() that is executing
    mainPc,         \* position the signal handler interrupted
    cap,            \* camera handle: "none", "open", "released"
    pix,            \* PixhawkConnection fields
    running, shutting_down,
    marker_info,    \* the list of the current cycle (<<>> for None)
    pid,            \* PID state of each axis controller
    pwm,            \* stored PWM of each axis controller
    ret,            \* PWM returned to run() by each controller (0: none yet)
    now,            \* last clock reading, in ticks
    cycles,         \* frames read by the loop
    computes,       \* calls of PIDController.compute made per axis
    lastCmd,        \* list last handed to the link by the run loop
    out,            \* pid_output of the last compute call of each axis
    fails,          \* failed frame reads in a row, modulo 2
    sent,           \* outcome of the last send_rc_override of the loop
    sdLog,          \* calls made on link, camera and display by shutdown()
    sdStart,        \* link state when the shutdown sequence began
    sdCalls,        \* calls of shutdown()
    sdRuns,         \* shutdown() calls that got past the guard
    sigs            \* SIGINTs delivered

vars == <<pc, ctx, mainPc, cap, pix, running, shutting_down, marker_info,
          pid, pwm, ret, now, cycles, computes, lastCmd, out, fails, sent,
          sdLog, sdStart, sdCalls, sdRuns, sigs>>

ctlVars ==
    <<marker_info, pid, pwm, ret, now, cycles, computes, lastCmd, out, fails,
      sent>>
sdVars ==
    <<ctx, mainPc, shutting_down, sdLog, sdStart, sdCalls, sdRuns, sigs>>

\* No shutdown sequence has begun.
NotStarted ==
    [begun |-> FALSE, connected |-> FALSE, armed |-> FALSE, cap |-> "none",
     running |-> FALSE]

\* UUVControlSystem.__init__, before run().
Init ==
    /\ pc = "idle" /\ ctx = "none" /\ mainPc = "none"
    /\ cap = "none"
    /\ pix = NewPixhawk
    /\ running = FALSE /\ shutting_down = FALSE
    /\ marker_info = <<>>
    /\ pid = [a \in Axes |-> NewPID(0)]
    /\ pwm = [a \in Axes |-> neutral_pwm]
    /\ ret = [a \in Axes |-> 0]
    /\ now = 0 /\ cycles = 0 /\ computes = 0
    /\ lastCmd = <<>>
    /\ out = [a \in Axes |-> IntOut(0)] /\ fails = 0 /\ sent = "none"
    /\ sdLog = <<>> /\ sdStart = NotStarted /\ sdCalls = 0 /\ sdRuns = 0
    /\ sigs = 0

\* Positions inside the try block of run().
TryRegion == {"loop", "detect", "control", "dispatch", "display"}
\* Positions inside shutdown(): the five steps, then the fallback block.
StepPcs == {"sd1", "sd2", "sd3", "sd4", "sd5"}
FbPcs == {"fb1", "fb2", "fb3"}

\* Where a SystemExit raised at main-thread position p ends up: through the
\* finally block of run() when p is inside the try block.
ExitFrom(p) == IF p \in TryRegion THEN "unwind" ELSE "exited"

\* Mutant: the signal handler returns to the interrupted code instead of
\* raising SystemExit.
AfterShutdown_Resume(c, p) ==
    CASE c = "run" -> "returned"
      [] c = "direct" -> "returned"
      [] c = "unwind" -> "exited"
      [] c = "handler" -> p

\* Where control goes when the executing shutdown() returns.
AfterShutdown(c, p) ==
    CASE c = "run" -> "returned"
      [] c = "direct" -> "returned"
      [] c = "unwind" -> "exited"
      [] c = "handler" -> ExitFrom(p)

\* ---- run(): start-up
InitializeCamera ==
    /\ pc = "idle"
    /\ \E ok \in BOOLEAN :
         IF ok THEN cap' = "open" /\ pc' = "connect"
         ELSE cap' = cap /\ pc' = "returned"
    /\ UNCHANGED <<pix, running>> /\ UNCHANGED ctlVars /\ UNCHANGED sdVars

\* Mutant: run() goes on to arm and loop when connect() has failed.
Connect_IgnoreFailure ==
    /\ pc = "connect"
    /\ \E ok \in BOOLEAN :
         IF ok THEN pix' = [pix EXCEPT !.master = TRUE, !.connected = TRUE]
         ELSE \E m \in BOOLEAN :
                 pix' = [pix EXCEPT !.master = m, !.connected = FALSE]
    /\ pc' = "arm"
    /\ UNCHANGED <<cap, running>> /\ UNCHANGED ctlVars /\ UNCHANGED sdVars

\* connect_pixhawk(), first half: PixhawkConnection.connect()
Connect ==
    /\ pc = "connect"
    /\ \E ok \in BOOLEAN :
         IF ok THEN pix' = [pix EXCEPT !.master = TRUE, !.connected = TRUE]
                    /\ pc' = "arm"
         ELSE \E m \in BOOLEAN :
                 pix' = [pix EXCEPT !.master = m, !.connected = FALSE]
              /\ pc' = "returned"
    /\ UNCHANGED <<cap, running>> /\ UNCHANGED ctlVars /\ UNCHANGED sdVars

\* Mutant: run() gives up when arm() returns False.
Arm_Abort ==
    /\ pc = "arm"
    /\ \E confirmed \in BOOLEAN :
         /\ pix' = IF Usable(pix) /\ confirmed
                   THEN [pix EXCEPT !.armed = TRUE] ELSE pix
         /\ pc' = IF Usable(pix) /\ confirmed THEN "ready" ELSE "returned"
    /\ UNCHANGED <<cap, running>> /\ UNCHANGED ctlVars /\ UNCHANGED sdVars

\* connect_pixhawk(), second half: arm(); armed is set only on a usable
\* link and when a heartbeat confirms it within 5 s, and run() goes on
\* either way.
Arm ==
    /\ pc = "arm"
    /\ \E confirmed \in BOOLEAN :
         pix' = IF Usable(pix) /\ confirmed
                THEN [pix EXCEPT !.armed = TRUE] ELSE pix
    /\ pc' = "ready"
    /\ UNCHANGED <<cap, running>> /\ UNCHANGED ctlVars /\ UNCHANGED sdVars

\* self.running = True, then the try block is entered.
StartLoop ==
    /\ pc = "ready"
    /\ running' = TRUE
    /\ pc' = "loop"
    /\ UNCHANGED <<cap, pix>> /\ UNCHANGED ctlVars /\ UNCHANGED sdVars

\* ---- run(): one cycle of the while loop
\* Mutant: the "continue" is missing, a failed read goes on to detection.
ReadFrame_FallThrough ==
    /\ pc = "loop" /\ running
    /\ \/ /\ cycles < MaxCycles
          /\ cycles' = cycles + 1 /\ fails' = 0
       \/ /\ fails' = (fails + 1) % 2 /\ cycles' = cycles
    /\ pc' = "detect"
    /\ UNCHANGED <<cap, pix, running, marker_info, pid, pwm, ret, now,
                   computes, lastCmd, out, sent>>
    /\ UNCHANGED sdVars

\* ret, frame = self.cap.read(); a failed read logs a warning and goes
\* back to the loop test ("continue").
ReadFrame ==
    /\ pc = "loop" /\ running
    /\ \/ /\ cycles < MaxCycles
          /\ cycles' = cycles + 1 /\ fails' = 0
          /\ pc' = "detect"
       \/ /\ fails' = (fails + 1) % 2 /\ cycles' = cycles
          /\ pc' = "loop"
    /\ UNCHANGED <<cap, pix, running, marker_info, pid, pwm, ret, now,
                   computes, lastCmd, out, sent>>
    /\ UNCHANGED sdVars

\* detect_markers and calculate_marker_info; an exception in either leaves
\* the loop through "except Exception".
Detect ==
    /\ pc = "detect"
    /\ \/ \E m \in Detections : marker_info' = m /\ pc' = "control"
       \/ marker_info' = marker_info /\ pc' = "finally"
    /\ UNCHANGED <<cap, pix, running, pid, pwm, ret, now, cycles, computes,
                   lastCmd, out, fails, sent>>
    /\ UNCHANGED sdVars

\* The four calculate_control calls of one cycle; the clock has advanced by
\* d ticks since its last reading.
Control ==
    /\ pc = "control"
    /\ \E d \in DtSet :
         LET t == now + d
             r == [a \in Axes |-> CalculateControl(a, pid[a], marker_info, t)]
         IN  /\ pid' = [a \in Axes |-> r[a].pid]
             /\ pwm' = [a \in Axes |-> r[a].pwm]
             /\ ret' = [a \in Axes |-> r[a].ret]
             /\ out' = [a \in Axes |-> IF r[a].computed THEN r[a].output
                                       ELSE out[a]]
             /\ computes' = IF r["forward"].computed
                            THEN computes + 1 ELSE computes
             /\ now' = t
    /\ pc' = "dispatch"
    /\ UNCHANGED <<cap, pix, running, marker_info, cycles, lastCmd, fails,
                   sent>>
    /\ UNCHANGED sdVars

\* Mutant: throttle and yaw are put on each other's channel.
Channels_Swapped(r) ==
    <<0, 0, r["yaw"], r["throttle"], r["forward"], r["lateral"], 0, 0>>

\* The 8-channel list run() builds from the returned PWM values.
Channels(r) ==
    <<0, 0, r["throttle"], r["yaw"], r["forward"], r["lateral"], 0, 0>>

\* Mutant: what the send raises is not caught inside send_rc_override and
\* ends the loop through "except Exception" of run().
Dispatch_FailStops ==
    /\ pc = "dispatch"
    /\ \E raised \in BOOLEAN :
         LET handed == SendRcOverride(pix, Channels(ret))
         IN  /\ lastCmd' = IF handed = <<>> THEN lastCmd ELSE handed
             /\ sent' = IF handed # <<>> /\ ~raised THEN "ok" ELSE "failed"
             /\ pc' = IF raised THEN "finally" ELSE "display"
    /\ UNCHANGED <<cap, pix, running, marker_info, pid, pwm, ret, now,
                   cycles, computes, out, fails>>
    /\ UNCHANGED sdVars

\* self.pixhawk.send_rc_override([...]): the call returns False when the
\* link is not usable or when the send raises inside it; run() does not
\* look at the value and goes on to the display.
Dispatch ==
    /\ pc = "dispatch"
    /\ \E raised \in BOOLEAN :
         LET handed == SendRcOverride(pix, Channels(ret))
         IN  /\ lastCmd' = IF handed = <<>> THEN lastCmd ELSE handed
             /\ sent' = IF handed # <<>> /\ ~raised THEN "ok" ELSE "failed"
    /\ pc' = "display"
    /\ UNCHANGED <<cap, pix, running, marker_info, pid, pwm, ret, now,
                   cycles, computes, out, fails>>
    /\ UNCHANGED sdVars

\* An exception raised by a calculate_control call before it has stored
\* anything: "except Exception" of run() logs it and the loop is left.
\* (send_rc_override catches what its send raises, see Dispatch.)
Raise ==
    /\ pc = "control"
    /\ pc' = "finally"
    /\ UNCHANGED <<cap, pix, running>> /\ UNCHANGED ctlVars
    /\ UNCHANGED sdVars

\* draw_control_info, imshow, waitKey: the 'q' key breaks out of the loop,
\* an exception leaves it, anything else starts the next cycle.  The value
\* send_rc_override returned was never kept.
Display ==
    /\ pc = "display"
    /\ \E outcome \in {"next", "quit", "raise"} :
         pc' = IF outcome = "next" THEN "loop" ELSE "finally"
    /\ sent' = "none"
    /\ UNCHANGED <<cap, pix, running, marker_info, pid, pwm, ret, now,
                   cycles, computes, lastCmd, out, fails>>
    /\ UNCHANGED sdVars

\* ---- shutdown()
\* Mutant: shutdown() never sets shutting_down.
EnterShutdown_NoFlag(caller, noopPc) ==
    /\ sdCalls' = sdCalls + 1
    /\ IF shutting_down
       THEN /\ pc' = noopPc
            /\ UNCHANGED <<ctx, shutting_down, running, sdStart, sdRuns>>
       ELSE /\ shutting_down' = shutting_down
            /\ running' = FALSE
            /\ ctx' = caller
            /\ sdStart' = [begun |-> TRUE, connected |-> pix.connected,
                           armed |-> pix.armed, cap |-> cap,
                           running |-> running]
            /\ sdRuns' = sdRuns + 1
            /\ pc' = "sd1"

\* The guard and the two flag assignments that open shutdown(), for a call
\* made by caller; a call that finds shutting_down set returns at once and
\* control continues at noopPc.
EnterShutdown(caller, noopPc) ==
    /\ sdCalls' = sdCalls + 1
    /\ IF shutting_down
       THEN /\ pc' = noopPc
            /\ UNCHANGED <<ctx, shutting_down, running, sdStart, sdRuns>>
       ELSE /\ shutting_down' = TRUE
            /\ running' = FALSE
            /\ ctx' = caller
            /\ sdStart' = [begun |-> TRUE, connected |-> pix.connected,
                           armed |-> pix.armed, cap |-> cap,
                           running |-> running]
            /\ sdRuns' = sdRuns + 1
            /\ pc' = "sd1"

\* Mutant: run() has no finally block, the loop is left without shutdown().
Finally_Skip ==
    /\ pc = "finally"
    /\ pc' = "returned"
    /\ UNCHANGED <<cap, pix, running>> /\ UNCHANGED ctlVars
    /\ UNCHANGED sdVars

\* finally: self.shutdown(), reached by break or by a caught exception.
Finally ==
    /\ pc = "finally"
    /\ EnterShutdown("run", "returned")
    /\ UNCHANGED <<mainPc, cap, pix, sdLog, sigs>> /\ UNCHANGED ctlVars

\* finally: self.shutdown(), reached by the SystemExit of the signal handler.
Unwind ==
    /\ pc = "unwind"
    /\ EnterShutdown("unwind", "exited")
    /\ UNCHANGED <<mainPc, cap, pix, sdLog, sigs>> /\ UNCHANGED ctlVars

\* A caller invoking shutdown() again after run() has returned.
DirectShutdown ==
    /\ pc = "returned"
    /\ sdCalls < MaxCalls
    /\ EnterShutdown("direct", "returned")
    /\ UNCHANGED <<mainPc, cap, pix, sdLog, sigs>> /\ UNCHANGED ctlVars

\* Mutant: step 1 does not send the all-zero command.
Step1_NoZero ==
    /\ pc = "sd1"
    /\ pc' = "sd2"
    /\ UNCHANGED <<ctx, mainPc, cap, pix, running, shutting_down, sdLog,
                   sdStart, sdCalls, sdRuns, sigs>>
    /\ UNCHANGED ctlVars

\* Step 1: if connected, send_rc_override([0] * 8)
Step1 ==
    /\ pc = "sd1"
    /\ sdLog' = IF pix.connected /\ SendRcOverride(pix, ZeroCmd) = ZeroCmd
                THEN Append(sdLog, "zero") ELSE sdLog
    /\ pc' = "sd2"
    /\ UNCHANGED <<ctx, mainPc, cap, pix, running, shutting_down, sdStart,
                   sdCalls, sdRuns, sigs>>
    /\ UNCHANGED ctlVars

\* Step 2: if connected and armed, disarm()
Step2 ==
    /\ pc = "sd2"
    /\ IF pix.connected /\ pix.armed
       THEN \E o \in DisarmOutcomes :
              LET d == Disarm(pix, o)
              IN  pix' = d.px /\ sdLog' = sdLog \o d.events
       ELSE UNCHANGED <<pix, sdLog>>
    /\ pc' = "sd3"
    /\ UNCHANGED <<ctx, mainPc, cap, running, shutting_down, sdStart,
                   sdCalls, sdRuns, sigs>>
    /\ UNCHANGED ctlVars

\* Mutant: step 3 leaves the link connected.
Step3_NoDisconnect ==
    /\ pc = "sd3"
    /\ pc' = "sd4"
    /\ UNCHANGED <<ctx, mainPc, cap, pix, running, shutting_down, sdLog,
                   sdStart, sdCalls, sdRuns, sigs>>
    /\ UNCHANGED ctlVars

\* Step 3: if connected, disconnect()
Step3 ==
    /\ pc = "sd3"
    /\ IF pix.connected
       THEN \E o \in DisarmOutcomes :
              LET d == Disconnect(pix, o)
              IN  pix' = d.px /\ sdLog' = sdLog \o d.events
       ELSE UNCHANGED <<pix, sdLog>>
    /\ pc' = "sd4"
    /\ UNCHANGED <<ctx, mainPc, cap, running, shutting_down, sdStart,
                   sdCalls, sdRuns, sigs>>
    /\ UNCHANGED ctlVars

\* Step 4: if self.cap is not None, self.cap.release(); a raise goes to the
\* except block.
Step4 ==
    /\ pc = "sd4"
    /\ IF cap = "none"
       THEN pc' = "sd5" /\ UNCHANGED <<cap, sdLog>>
       ELSE /\ sdLog' = Append(sdLog, "cam_release")
            /\ \E ok \in BOOLEAN :
                 IF ok THEN cap' = "released" /\ pc' = "sd5"
                 ELSE cap' = cap /\ pc' = "fb1"
    /\ UNCHANGED <<ctx, mainPc, pix, running, shutting_down, sdStart,
                   sdCalls, sdRuns, sigs>>
    /\ UNCHANGED ctlVars

\* Step 5: cv2.destroyAllWindows(); a raise goes to the except block.
Step5 ==
    /\ pc = "sd5"
    /\ sdLog' = Append(sdLog, "destroy")
    /\ \E ok \in BOOLEAN :
         pc' = IF ok THEN AfterShutdown(ctx, mainPc) ELSE "fb1"
    /\ UNCHANGED <<ctx, mainPc, cap, pix, running, shutting_down, sdStart,
                   sdCalls, sdRuns, sigs>>
    /\ UNCHANGED ctlVars

\* except Exception: "still try to close critical resources", inside a
\* try whose bare except swallows whatever is raised.
Fallback1 ==
    /\ pc = "fb1"
    /\ sdLog' = IF pix.connected /\ SendRcOverride(pix, ZeroCmd) = ZeroCmd
                THEN Append(sdLog, "zero") ELSE sdLog
    /\ pc' = "fb2"
    /\ UNCHANGED <<ctx, mainPc, cap, pix, running, shutting_down, sdStart,
                   sdCalls, sdRuns, sigs>>
    /\ UNCHANGED ctlVars

Fallback2 ==
    /\ pc = "fb2"
    /\ IF cap = "none"
       THEN pc' = "fb3" /\ UNCHANGED <<cap, sdLog>>
       ELSE /\ sdLog' = Append(sdLog, "cam_release")
            /\ \E ok \in BOOLEAN :
                 IF ok THEN cap' = "released" /\ pc' = "fb3"
                 ELSE cap' = cap /\ pc' = AfterShutdown(ctx, mainPc)
    /\ UNCHANGED <<ctx, mainPc, pix, running, shutting_down, sdStart,
                   sdCalls, sdRuns, sigs>>
    /\ UNCHANGED ctlVars

Fallback3 ==
    /\ pc = "fb3"
    /\ sdLog' = Append(sdLog, "destroy")
    /\ pc' = AfterShutdown(ctx, mainPc)
    /\ UNCHANGED <<ctx, mainPc, cap, pix, running, shutting_down, sdStart,
                   sdCalls, sdRuns, sigs>>
    /\ UNCHANGED ctlVars

\* ---- signal_handler: shutdown() on the instance, then sys.exit(0).
\* The handler runs on the main thread, at whatever position it is in.  A
\* handler call that finds shutting_down set returns at once, and the
\* SystemExit is then raised where the thread was: inside the steps of a
\* shutdown() it propagates ("except Exception" does not catch it), inside
\* the fallback block the bare except swallows it and shutdown() returns.
SigDest ==
    IF pc \in FbPcs THEN AfterShutdown(ctx, mainPc)
    ELSE IF pc \in StepPcs /\ ctx = "handler" THEN ExitFrom(mainPc)
    ELSE "exited"

Sigint ==
    /\ pc \notin {"returned", "exited"}
    /\ sigs < MaxSig
    /\ sigs' = sigs + 1
    /\ mainPc' = IF shutting_down THEN mainPc ELSE pc
    /\ EnterShutdown("handler", SigDest)
    /\ UNCHANGED <<cap, pix, sdLog>> /\ UNCHANGED ctlVars

Next ==
    \/ InitializeCamera
    \/ Connect
    \/ Arm
    \/ StartLoop
    \/ ReadFrame
    \/ Detect
    \/ Control
    \/ Dispatch
    \/ Raise
    \/ Display
    \/ Finally
    \/ Unwind
    \/ DirectShutdown
    \/ Step1
    \/ Step2
    \/ Step3
    \/ Step4
    \/ Step5
    \/ Fallback1
    \/ Fallback2
    \/ Fallback3
    \/ Sigint

Spec == Init /\ [][Next]_vars

\* The steps of the program itself: the main thread, which runs whenever
\* it has a step to take.  SIGINT and a caller's further shutdown() call
\* are left to the environment.
MainThread ==
    \/ InitializeCamera \/ Connect \/ Arm \/ StartLoop
    \/ ReadFrame \/ Detect \/ Control \/ Dispatch \/ Raise \/ Display
    \/ Finally \/ Unwind
    \/ Step1 \/ Step2 \/ Step3 \/ Step4 \/ Step5
    \/ Fallback1 \/ Fallback2 \/ Fallback3

\* The system with a main thread that keeps running.
SpecLive == Init /\ [][Next]_vars /\ WF_vars(MainThread)

\* ------------------------------------------------- first computed cycle
\* A second specification for the claims about the first computed cycle:
\* the system has started up and detected a marker for the first time
\* (fresh PID state), the marker being drawn from one sweep per axis.
AreaDeltas ==
    (0 - 300) .. 300 \cup {1000 * k : k \in (0 - 20) .. 20}
EdgeDeltas == (0 - 60) .. 60
Sweep ==
    {<<Marker(target_area + d, 100, 100, 320, 240)>> : d \in AreaDeltas}
    \cup {<<Marker(target_area, 100, 100 + d, 320, 240)>> : d \in EdgeDeltas}
    \cup {<<Marker(target_area, 100, 100, x, 240)>> : x \in 0 .. frame_width - 1}
    \cup {<<Marker(target_area, 100, 100, 320, y)>> : y \in 0 .. frame_height - 1}

FirstInit ==
    /\ pc = "control" /\ ctx = "none" /\ mainPc = "none"
    /\ cap = "open"
    /\ \E confirmed \in BOOLEAN :
         pix = [master |-> TRUE, connected |-> TRUE, armed |-> confirmed]
    /\ running = TRUE /\ shutting_down = FALSE
    /\ marker_info \in Sweep
    /\ pid = [a \in Axes |-> NewPID(0)]
    /\ pwm = [a \in Axes |-> neutral_pwm]
    /\ ret = [a \in Axes |-> 0]
    /\ now = 0 /\ cycles = 1 /\ computes = 0
    /\ lastCmd = <<>>
    /\ out = [a \in Axes |-> IntOut(0)] /\ fails = 0 /\ sent = "none"
    /\ sdLog = <<>> /\ sdStart = NotStarted /\ sdCalls = 0 /\ sdRuns = 0
    /\ sigs = 0

FirstNext == Control \/ Dispatch

SpecFirst == FirstInit /\ [][FirstNext]_vars

\* ------------------------------------------------ one compute per axis
\* A third specification for the claims about PIDController.compute as a
\* function of the PID state, the error and dt: the loop is running, one
\* axis has a PID state left by earlier cycles, and the marker gives that
\* axis an error from the list below (the other axes are centred).
Magnitudes(axis) ==
    CASE axis = "forward"  -> {1000, 15000}
      [] axis = "yaw"      -> {10, 60}
      [] axis = "lateral"  -> {40, 280}
      [] axis = "throttle" -> {40, 220}

\* Errors: zero, the deadband edge on both sides, just outside it, and
\* the magnitudes above.
PidErrors(axis) ==
    LET db == Gains(axis).deadband
    IN  {0} \cup {s * m : s \in {0 - 1, 1},
                          m \in {db, db + 1} \cup Magnitudes(axis)}

\* PID states compute can leave behind: the fresh one, the one left by an
\* in-deadband call (error and integral zero), and those left by a call
\* outside the deadband (previous_error outside it, any integral, here
\* 0, +/- 0.5 and +/- 200 unit-seconds).
PidStates(axis) ==
    LET db == Gains(axis).deadband
        prevs == {s * m : s \in {0 - 1, 1}, m \in {db + 1} \cup Magnitudes(axis)}
        ints  == {0, 5000, 0 - 5000, 2000000, 0 - 2000000}
        times == {0, 900, 1000}
    IN  {[previous_error |-> 0, integral |-> 0, last_time |-> t,
          in_deadband |-> b] : t \in times, b \in BOOLEAN}
        \cup {[previous_error |-> e, integral |-> i, last_time |-> t,
               in_deadband |-> FALSE] : e \in prevs, i \in ints, t \in times}

\* The marker that gives axis the error e and every other axis none.
MarkerWith(axis, e) ==
    CASE axis = "forward"  -> Marker(target_area - e, 100, 100, 320, 240)
      [] axis = "yaw"      -> Marker(target_area, 100, 100 + e, 320, 240)
      [] axis = "lateral"  -> Marker(target_area, 100, 100, 320 + e, 240)
      [] axis = "throttle" -> Marker(target_area, 100, 100, 320, 240 + e)

PidInit ==
    /\ pc = "control" /\ ctx = "none" /\ mainPc = "none"
    /\ cap = "open"
    /\ pix = [master |-> TRUE, connected |-> TRUE, armed |-> TRUE]
    /\ running = TRUE /\ shutting_down = FALSE
    /\ \E a \in Axes :
         /\ \E e \in PidErrors(a) : marker_info = <<MarkerWith(a, e)>>
         /\ \E p \in PidStates(a) :
              pid = [b \in Axes |-> IF b = a THEN p ELSE NewPID(1000)]
    /\ pwm = [a \in Axes |-> neutral_pwm]
    /\ ret = [a \in Axes |-> neutral_pwm]
    /\ now = 1000 /\ cycles = 1 /\ computes = 1
    /\ lastCmd = <<>>
    /\ out = [a \in Axes |-> IntOut(0)] /\ fails = 0 /\ sent = "none"
    /\ sdLog = <<>> /\ sdStart = NotStarted /\ sdCalls = 0 /\ sdRuns = 0
    /\ sigs = 0

PidNext == Control \/ Dispatch

SpecPid == PidInit /\ [][PidNext]_vars

\* ================================================================ claims
InRange(x) == x \in Int /\ min_pwm <= x /\ x <= max_pwm
Has(log, e) == \E i \in 1..Len(log) : log[i] = e
HasBefore(log, e, i) == \E j \in 1..(i - 1) : log[j] = e
\* The stored PWM values are those computed from marker_info.
Computed == pc \in {"dispatch", "display"} /\ ~NoMarker(marker_info)

\* C1: every PWM an axis controller stores or returns is an integer in
\* [1100, 1900], whatever cycles have run.
C1_PwmInRange ==
    \A a \in Axes : InRange(pwm[a]) /\ (ret[a] # 0 => InRange(ret[a]))

C1_Witness ==
    /\ computes = 2
    /\ pwm["forward"] = 1300 /\ ret["forward"] = 1300
    /\ pwm["throttle"] = 1300 /\ ret["throttle"] = 1300
    /\ pwm["yaw"] = 1300 /\ pwm["lateral"] = 1300

\* C2: a calculate_control round with no marker returns and stores 1500 on
\* every axis, makes no PID compute call and leaves every PID state as it
\* was.
C2_NoDetectionFreeze ==
    [][(pc = "control" /\ pc' = "dispatch" /\ NoMarker(marker_info))
        => /\ \A a \in Axes : pwm'[a] = 1500 /\ ret'[a] = 1500
           /\ pid' = pid
           /\ computes' = computes]_vars

C2_Witness ==
    /\ pc = "dispatch" /\ NoMarker(marker_info)
    /\ computes = 1
    /\ pid["forward"].integral # 0 /\ pid["yaw"].previous_error # 0
    /\ pid["lateral"].last_time < now
    /\ \A a \in Axes : pwm[a] = 1500

\* C3: a command handed to the link by the run loop has 8 channels, with
\* 1, 2, 7, 8 zero and 3, 4, 5, 6 the throttle, yaw, forward and lateral PWM
\* of the same cycle, each in [1100, 1900].
C3_ChannelMap ==
    /\ lastCmd # <<>> =>
         /\ Len(lastCmd) = 8
         /\ lastCmd[1] = 0 /\ lastCmd[2] = 0
         /\ lastCmd[7] = 0 /\ lastCmd[8] = 0
         /\ \A i \in 3..6 : InRange(lastCmd[i])
    /\ pc = "display" =>
         /\ lastCmd # <<>>
         /\ lastCmd[3] = pwm["throttle"] /\ lastCmd[3] = ret["throttle"]
         /\ lastCmd[4] = pwm["yaw"] /\ lastCmd[4] = ret["yaw"]
         /\ lastCmd[5] = pwm["forward"] /\ lastCmd[5] = ret["forward"]
         /\ lastCmd[6] = pwm["lateral"] /\ lastCmd[6] = ret["lateral"]

C3_Witness ==
    /\ pc = "display"
    /\ lastCmd = <<0, 0, 1376, 1442, 1467, 1623, 0, 0>>

\* C4: on the first computed cycle a marker more than 15 px right of the
\* target x gives lateral PWM < 1500, more than 15 px left gives > 1500.
C4_LateralInverted ==
    (Computed /\ computes = 1) =>
        LET e == marker_info[1].cx - target_center_x
        IN  /\ e > 15 => pwm["lateral"] < 1500
            /\ e < 0 - 15 => pwm["lateral"] > 1500

\* C5: on the first computed cycle a left edge longer than the right by
\* more than 2 px gives yaw PWM > 1500, a right edge longer gives < 1500.
C5_YawLeftMinusRight ==
    (Computed /\ computes = 1) =>
        LET e == marker_info[1].SOL - marker_info[1].SAG
        IN  /\ e > 2 => pwm["yaw"] > 1500
            /\ e < 0 - 2 => pwm["yaw"] < 1500

\* C6: on the first computed cycle a marker more than 15 px below the
\* target y (larger y) gives throttle PWM > 1500, above gives < 1500.
C6_ThrottleAdds ==
    (Computed /\ computes = 1) =>
        LET e == marker_info[1].cy - target_center_y
        IN  /\ e > 15 => pwm["throttle"] > 1500
            /\ e < 0 - 15 => pwm["throttle"] < 1500

\* C7: on the first computed cycle an area more than 200 above the target
\* gives forward PWM < 1500, more than 200 below gives > 1500.
C7_ForwardSign ==
    (Computed /\ computes = 1) =>
        LET e == target_area - marker_info[1].area
        IN  /\ e < 0 - 200 => pwm["forward"] < 1500 /\ ret["forward"] < 1500
            /\ e > 200 => pwm["forward"] > 1500 /\ ret["forward"] > 1500

C7_Witness ==
    /\ Computed /\ computes = 1
    /\ marker_info[1].area = 20201
    /\ pwm["forward"] = 1467

\* C8: in a shutdown that begins with the link connected, the all-zero
\* command precedes every disarm request, the disarm request precedes the
\* disconnect, the disconnect precedes the camera release and the camera
\* release precedes the release of the display.
C8_ShutdownOrder ==
    (sdStart.begun /\ sdStart.connected) =>
        \A i \in 1..Len(sdLog) :
            /\ sdLog[i] = "disarm" =>
                 /\ HasBefore(sdLog, "zero", i)
                 /\ ~HasBefore(sdLog, "disconnect", i)
            /\ sdLog[i] = "disconnect" =>
                 /\ HasBefore(sdLog, "zero", i)
                 /\ sdStart.armed => HasBefore(sdLog, "disarm", i)
            /\ sdLog[i] = "cam_release" => HasBefore(sdLog, "disconnect", i)
            /\ sdLog[i] = "destroy" => HasBefore(sdLog, "cam_release", i)

C8_Witness ==
    /\ sdStart.begun /\ sdStart.connected /\ sdStart.armed
    /\ sdLog = <<"zero", "disarm", "zero", "disconnect", "cam_release",
                 "destroy">>
    /\ pc = "returned"

\* C9: a shutdown() call made after an earlier one starts no step of the
\* sequence, raises nothing inside shutdown() and changes nothing: not
\* the link, the camera, the flags, the record of calls made by the
\* sequence, nor any controller state.
C9_SecondCallNoOp ==
    [][(sdCalls' = sdCalls + 1 /\ sdCalls >= 1)
        => /\ UNCHANGED <<cap, pix, running, shutting_down, sdLog, sdStart,
                          ctx>>
           /\ UNCHANGED ctlVars
           /\ pc' \notin StepPcs \cup FbPcs]_vars

C9_Witness ==
    /\ sdCalls >= 2
    /\ pc = "returned"
    /\ sigs = 0
    /\ Has(sdLog, "disconnect") /\ Has(sdLog, "cam_release")
    /\ ~pix.connected /\ cap = "released"

\* C10: when a cleanup step raises, every later step is still attempted
\* and shutdown() returns normally: a shutdown() call that has returned
\* to run(), undisturbed by signals, has attempted the disarm, the
\* disconnect, the camera release and the display release that its
\* starting state calls for.
C10_AllStepsAttempted ==
    (pc = "returned" /\ ctx = "run" /\ sigs = 0) =>
        /\ Has(sdLog, "destroy")
        /\ sdStart.cap # "none" => Has(sdLog, "cam_release")
        /\ sdStart.connected => Has(sdLog, "disconnect")
        /\ (sdStart.connected /\ sdStart.armed) => Has(sdLog, "disarm")

\* Number of entries e in a log.
Count(log, e) == Cardinality({i \in 1..Len(log) : log[i] = e})

\* The process has left run(): by returning or by SystemExit.
Stopped == pc \in {"returned", "exited"}

\* C11: a run that left Running through the finally block of run() with no
\* signal (the loop-exit key), and a run that left it through one SIGINT,
\* both go through the steps of the one shutdown() and stop in the same
\* state: running false, shutting_down true, the all-zero command sent,
\* the link disconnected, the camera released (release() called, and the
\* handle released unless release() raised on both attempts).
C11_SamePath ==
    (/\ Stopped /\ sdStart.begun /\ sdStart.connected
     /\ \/ ctx = "run" /\ sigs = 0
        \/ ctx = "handler" /\ sigs = 1 /\ mainPc \in TryRegion)
    => /\ ~running /\ shutting_down
       /\ Has(sdLog, "zero")
       /\ sdLog[1] = "zero"
       /\ Has(sdLog, "disconnect") /\ ~pix.connected /\ ~pix.master
       /\ Has(sdLog, "cam_release")
       /\ cap = "released" \/ Count(sdLog, "cam_release") >= 2

C11_Witness ==
    /\ pc = "exited" /\ ctx = "handler" /\ sigs = 1 /\ mainPc = "dispatch"
    /\ sdStart.begun /\ sdStart.connected /\ sdStart.armed
    /\ computes >= 1
    /\ sdCalls = 2
    /\ ~running /\ shutting_down
    /\ sdLog = <<"zero", "disarm", "zero", "disconnect", "cam_release",
                 "destroy">>
    /\ ~pix.connected /\ cap = "released"

\* C12: a shutdown sequence that a SIGINT interrupts still attempts all
\* of its remaining steps before the process stops: once the process has
\* stopped after a sequence in which no cleanup call was repeated by the
\* fallback block, the log holds the display release and the camera
\* release, disconnect and disarm that the starting state calls for.
C12_SequenceCompletes ==
    (/\ Stopped /\ sdStart.begun
     /\ Count(sdLog, "cam_release") <= 1 /\ Count(sdLog, "destroy") <= 1)
    => /\ Has(sdLog, "destroy")
       /\ sdStart.cap # "none" => Has(sdLog, "cam_release")
       /\ sdStart.connected => Has(sdLog, "disconnect")
       /\ (sdStart.connected /\ sdStart.armed) => Has(sdLog, "disarm")

\* One round of calculate_control calls made with a marker.
ControlStep == pc = "control" /\ pc' = "dispatch" /\ ~NoMarker(marker_info)

\* The error the round hands to the PID of axis a.
ErrorOf(a) == AxisError(a, marker_info[1])

\* Kd * (0 - prev) / dt as an exact rational in lowest terms (dt in ticks).
DerivOnly(g, prev, dt) ==
    LET n == g.kdN * (0 - prev) * TicksPerSec
        d == g.kdD * dt
    IN  Reduce([fl |-> n \div d, fr |-> n % d, den |-> d])

\* A rational limited to [min_output, max_output].
ClampOut(o) ==
    IF Above(o, max_output) THEN IntOut(max_output)
    ELSE IF Below(o, min_output) THEN IntOut(min_output)
    ELSE o

\* C13 as stated: for every PID state and every error inside the deadband
\* (edge included) compute returns exactly Kd * (0 - previous_error) / dt,
\* however large previous_error is.
C13_DeadbandDerivativeExact ==
    [][\A a \in Axes :
         (ControlStep /\ InDeadband(Gains(a), ErrorOf(a)))
         => out'[a] = DerivOnly(Gains(a), pid[a].previous_error,
                                DeltaT(pid[a], now'))]_vars

\* C13, amended: for every PID state and every error inside the deadband
\* (edge included) compute returns Kd * (0 - previous_error) / dt limited
\* to [min_output, max_output], with no proportional or integral term.
C13_DeadbandDerivativeClamped ==
    [][\A a \in Axes :
         (ControlStep /\ InDeadband(Gains(a), ErrorOf(a)))
         => out'[a] = ClampOut(DerivOnly(Gains(a), pid[a].previous_error,
                                         DeltaT(pid[a], now')))]_vars

\* Lateral axis, error at the deadband edge (marker M4) one cycle and
\* 0.07 s after an error of 16 (marker M2): 0.4 * (0 - 16) / 0.07 = -640/7
\* = -92 + 4/7, inside the limits, the integral before the call not zero.
C13_Witness ==
    /\ pc = "dispatch" /\ marker_info = <<M4>>
    /\ computes = 2
    /\ ErrorOf("lateral") = 15
    /\ pid["lateral"].in_deadband
    /\ out["lateral"] = [fl |-> 0 - 92, fr |-> 4, den |-> 7]
    /\ pwm["lateral"] = 1408

\* C14: after a compute call with |e| <= deadband (edge included), from
\* any PID state, integral is 0, previous_error is 0 and in_deadband is
\* true; after a call with |e| > deadband, in_deadband is false and
\* previous_error is e.
C14_DeadbandState ==
    [][\A a \in Axes :
         ControlStep =>
           IF Abs(ErrorOf(a)) <= Gains(a).deadband
           THEN /\ pid'[a].integral = 0
                /\ pid'[a].previous_error = 0
                /\ pid'[a].in_deadband = TRUE
           ELSE /\ pid'[a].in_deadband = FALSE
                /\ pid'[a].previous_error = ErrorOf(a)]_vars

\* Yaw error at the deadband edge (-2) after a call outside it: the
\* returned derivative term (at the lower limit) shows the earlier
\* positive error, while the state has been reset.
C14_Witness ==
    /\ pc = "dispatch" /\ ~NoMarker(marker_info)
    /\ ErrorOf("yaw") = 0 - 2
    /\ pid["yaw"] = [previous_error |-> 0, integral |-> 0,
                     last_time |-> 1000, in_deadband |-> TRUE]
    /\ out["yaw"] = IntOut(min_output)
    /\ pwm["yaw"] = 1300

\* C15: on every axis a computed cycle whose error is within the deadband
\* (edge included) stores and returns PWM 1500 when the previous_error of
\* the PID is 0: on the first call after construction and on an
\* in-deadband cycle that follows another in-deadband cycle.
C15_DeadbandNeutral ==
    [][\A a \in Axes :
         (/\ ControlStep
          /\ Abs(ErrorOf(a)) <= Gains(a).deadband
          /\ pid[a].previous_error = 0)
         => pwm'[a] = 1500 /\ ret'[a] = 1500]_vars

\* Second computed cycle, the marker with edges 100 (left) and 98 (right)
\* and every other error on its deadband edge, after a cycle that was
\* inside the deadband on every axis.
C15_Witness ==
    /\ pc = "dispatch" /\ marker_info = <<M4>>
    /\ marker_info[1].SOL = 100 /\ marker_info[1].SAG = 98
    /\ Abs(ErrorOf("yaw")) = Gains("yaw").deadband
    /\ computes = 2
    /\ \A a \in Axes :
         /\ pid[a].in_deadband /\ out[a] = IntOut(0)
         /\ pwm[a] = 1500 /\ ret[a] = 1500

\* The output of axis a before the clamp, in the call a control round is
\* about to make with an error outside the deadband: the integral has
\* taken the step error * dt.
RawOf(a) ==
    LET dt == DeltaT(pid[a], now')
    IN  RawOutput(Gains(a), ErrorOf(a), pid[a].integral + ErrorOf(a) * dt,
                  pid[a].previous_error, dt)

\* C16: a compute call with an error outside the deadband whose raw
\* output is above max_output (below min_output) returns exactly that
\* bound and leaves integral as it was before the call; so under a
\* constant saturating error the integral does not grow with the number
\* of calls.
C16_AntiWindup ==
    [][\A a \in Axes :
         (ControlStep /\ Abs(ErrorOf(a)) > Gains(a).deadband)
         => /\ Above(RawOf(a), max_output)
                => /\ out'[a] = IntOut(max_output)
                   /\ pid'[a].integral = pid[a].integral
            /\ Below(RawOf(a), min_output)
                => /\ out'[a] = IntOut(min_output)
                   /\ pid'[a].integral = pid[a].integral]_vars

\* Lateral error 280 on a PID that already holds 200 px*s of integral:
\* 2.0 * 280 alone is above the limit, the call returns 200 and the
\* integral is still 200 px*s.
C16_Witness ==
    /\ pc = "dispatch" /\ ~NoMarker(marker_info)
    /\ ErrorOf("lateral") = 280
    /\ pid["lateral"].previous_error = 280
    /\ pid["lateral"].integral = 2000000
    /\ out["lateral"] = IntOut(max_output)
    /\ pwm["lateral"] = 1700

\* C17: when the clock has not advanced since the previous compute call
\* (now - last_time <= 0) compute takes dt = 0.0001 s (one tick) and makes
\* the whole update: the integral takes the step error * dt (taken back
\* when the output is clamped), the derivative is (error - previous_error)
\* / dt, the output is clamped and returned, previous_error and last_time
\* are stored.
C17_MinDt ==
    [][\A a \in Axes :
         (ControlStep /\ now' - pid[a].last_time <= 0)
         => LET g   == Gains(a)
                db  == Abs(ErrorOf(a)) <= g.deadband
                e   == IF db THEN 0 ELSE ErrorOf(a)
                i0  == IF db THEN 0 ELSE pid[a].integral
                raw == Reduce(RawOutput(g, e, i0 + e * 1,
                                        pid[a].previous_error, 1))
            IN  /\ out'[a] = ClampOut(raw)
                /\ pid'[a].integral =
                     IF ClampOut(raw) = raw THEN i0 + e * 1 ELSE i0
                /\ pid'[a].previous_error = e
                /\ pid'[a].last_time = now']_vars

\* The clock reads the same as at the previous call; lateral error 16 as
\* before, integral 0.5 px*s: the integral takes 16 px * 0.0001 s and the
\* call returns 2.0 * 16 + 0.02 * 0.5016 = 32.010032.
C17_Witness ==
    /\ pc = "dispatch" /\ ~NoMarker(marker_info)
    /\ now = 1000
    /\ ErrorOf("lateral") = 16
    /\ pid["lateral"] = [previous_error |-> 16, integral |-> 5016,
                         last_time |-> 1000, in_deadband |-> FALSE]
    /\ out["lateral"] = [fl |-> 32, fr |-> 627, den |-> 62500]
    /\ pwm["lateral"] = 1532

\* C18: when no camera could be opened or connect() failed, run() returns
\* with running never set, no controller invoked and no command
\* dispatched: running is true only with the camera open and the link
\* connected, a frame read, a compute call or a dispatched command exists
\* only after both succeeded, and a run() that returned after one of the
\* two failures has left every counter, PID state and PWM as constructed.
C18_StartupFailure ==
    /\ running => (cap = "open" /\ pix.connected)
    /\ (cycles > 0 \/ computes > 0 \/ fails > 0 \/ lastCmd # <<>>)
         => (cap # "none" /\ (pix.connected \/ sdStart.connected))
    /\ (pc = "returned" /\ (cap = "none" \/ ~sdStart.connected))
         => /\ ~running
            /\ cycles = 0 /\ computes = 0 /\ fails = 0
            /\ lastCmd = <<>>
            /\ pid = [a \in Axes |-> NewPID(0)]
            /\ pwm = [a \in Axes |-> neutral_pwm]
            /\ ret = [a \in Axes |-> 0]

\* connect() failed after the camera was opened: run() has returned.
C18_Witness ==
    /\ pc = "returned"
    /\ cap = "open" /\ ~pix.connected
    /\ ~sdStart.begun /\ sdCalls = 0 /\ sigs = 0
    /\ ~running /\ cycles = 0 /\ lastCmd = <<>>

\* A read of the loop that failed: no frame is counted.
FailedRead == pc = "loop" /\ cycles' = cycles /\ fails' = (fails + 1) % 2

\* C20: in Running, a cycle whose frame read fails invokes no controller,
\* dispatches nothing, leaves every PID state and PWM value as it was,
\* and the loop is still Running, back at the read.
C20_FailedReadSkipsCycle ==
    [][FailedRead
        => /\ UNCHANGED <<pid, pwm, ret, out, computes, lastCmd,
                          marker_info, now>>
           /\ UNCHANGED <<cap, pix, sdLog, sdCalls>>
           /\ running' = TRUE /\ shutting_down' = FALSE
           /\ pc' = "loop"]_vars

\* A failed read after a computed cycle: the PWM values and the command
\* of that cycle are still in place.
C20_Witness ==
    /\ pc = "loop" /\ fails = 1 /\ running /\ ~shutting_down
    /\ cycles = 1 /\ computes = 1
    /\ pwm["lateral"] = 1623 /\ pwm["yaw"] = 1442
    /\ lastCmd = <<0, 0, 1376, 1442, 1467, 1623, 0, 0>>

\* C19: if from some point on every frame read fails (the loop is for ever
\* back at the read, still Running), the orchestrator eventually leaves
\* Running and starts its shutdown, without a signal.
C19_ReadFailureStops ==
    <>[](pc = "loop" /\ running) => <>shutting_down

\* C21: when send_rc_override fails in a cycle it returns False to run()
\* without raising: the loop goes on to the display, still Running, with
\* link, camera and controllers untouched; and every cycle that reaches
\* the dispatch, whatever happened to earlier sends, hands the four PWM
\* values just returned to send_rc_override.
C21_SendFailureKeepsRunning ==
    [][/\ (pc = "dispatch" /\ sent' = "failed")
          => /\ pc' = "display"
             /\ running' = TRUE /\ shutting_down' = FALSE
             /\ UNCHANGED <<cap, pix, pid, pwm, ret, out, sdLog, sdCalls>>
       /\ (pc = "dispatch" /\ pc' = "display")
          => /\ sent' \in {"ok", "failed"}
             /\ lastCmd' = Channels(ret)
       /\ (pc = "display" /\ sent = "failed" /\ pc' = "loop")
          => running' = TRUE /\ UNCHANGED <<cap, pix, pid, pwm, ret>>]_vars

\* The send of the second computed cycle has failed; the loop is at the
\* display, Running, the PWM values of the cycle handed over.
C21_Witness ==
    /\ pc = "display" /\ sent = "failed"
    /\ running /\ ~shutting_down /\ pix.connected
    /\ cycles = 2 /\ computes = 2
    /\ lastCmd = Channels(ret)
    /\ ret["yaw"] = 1300 /\ ret["lateral"] = 1700

\* C22: when connect() has succeeded and arm() returns False (the armed
\* flag stays false), run() still goes on to set running and enter the
\* loop, and in every cycle that has read a frame and reaches them, the
\* four controllers compute their PWM values and send_rc_override is
\* called with exactly those values.
C22_ArmFailureStillRuns ==
    [][/\ (pc = "arm" /\ sigs' = sigs)
          => /\ pc' = "ready"
             /\ pix'.connected = pix.connected
       /\ (pc = "ready" /\ sigs' = sigs)
          => running' = TRUE /\ pc' = "loop" /\ pix' = pix
       /\ (~pix.armed /\ pc = "control" /\ pc' = "dispatch")
          => \A a \in Axes :
               ret'[a] = CalculateControl(a, pid[a], marker_info, now').ret
       /\ (~pix.armed /\ pc = "dispatch" /\ sigs' = sigs)
          => pc' = "display" /\ lastCmd' = Channels(ret)]_vars

\* The link is connected but was never armed; the loop is Running and
\* the PWM values of its second cycle have been handed to the link.
C22_Witness ==
    /\ pc = "display" /\ sent = "ok"
    /\ pix.connected /\ ~pix.armed
    /\ running /\ ~shutting_down
    /\ cycles = 2 /\ computes = 2
    /\ lastCmd = Channels(ret)
    /\ ret["forward"] = 1700 /\ ret["throttle"] # neutral_pwm

\* C23: after a cycle without a detection, get_status of every axis
\* controller reports in_deadband = false, whatever the deadband status
\* of the last cycle that had a marker.
C23_NoDetectionNotInDeadband ==
    (pc \in {"dispatch", "display"} /\ NoMarker(marker_info))
    => \A a \in Axes : ~GetStatus(pid[a], pwm[a]).in_deadband

\* C24: for every PID state, error and dt the value compute returns lies
\* in [min_output, max_output] = [-200, 200], so every PWM an axis
\* controller computes with a marker present lies in [1300, 1700].
C24_OutputClamped ==
    \A a \in Axes :
      /\ ~Above(out[a], max_output) /\ ~Below(out[a], min_output)
      /\ Computed
         => /\ neutral_pwm + min_output <= pwm[a]
            /\ pwm[a] <= neutral_pwm + max_output
            /\ ret[a] = pwm[a]

\* Area 15000 px above the target, on a PID state with which the raw
\* output is below -200: compute has returned -200 and the forward PWM
\* is 1300.
C24_Witness ==
    /\ Computed
    /\ ErrorOf("forward") = 0 - 15000
    /\ pid["forward"].last_time = now
    /\ out["forward"] = IntOut(min_output)
    /\ pwm["forward"] = neutral_pwm + min_output

\* C25: whenever shutdown runs while the link is connected a disarm
\* request is sent to the link, also when arm() had returned False and
\* left the armed flag false: a shutdown() that began with the link
\* connected and has returned to run(), undisturbed by signals, has made
\* a disarm request.
C25_ShutdownAlwaysDisarms ==
    (pc = "returned" /\ sigs = 0 /\ sdStart.begun /\ sdStart.connected)
    => Has(sdLog, "disarm")

\* What may follow the first element of a detection list: nothing, one
\* other marker, two in either order, the same marker twice.
OtherTails == {<<>>, <<M5>>, <<M6>>, <<M5, M6>>, <<M6, M5>>, <<M1, M1>>}

\* C26: the four PWM values and the PID state of a cycle are computed
\* from the first element of the detection list only: whatever follows
\* it in the list (changed, reordered or removed), the four controllers
\* store and return the same PWM and leave the same PID state.
C26_FirstMarkerOnly ==
    [][ControlStep
        => \A tail \in OtherTails : \A a \in Axes :
             LET r == CalculateControl(a, pid[a],
                                       <<marker_info[1]>> \o tail, now')
             IN  /\ pid'[a] = r.pid
                 /\ pwm'[a] = r.pwm
                 /\ ret'[a] = r.ret]_vars

\* Two markers were detected in the first computed cycle, M2 first and
\* the far-off M5 second: the PWM values are those M2 alone gives.
C26_Witness ==
    /\ pc = "dispatch" /\ computes = 1
    /\ marker_info = <<M2, M5>>
    /\ \A a \in Axes :
         pwm[a] = CalculateControl(a, NewPID(0), <<M2>>, now).pwm
    /\ pwm["lateral"] # CalculateControl("lateral", NewPID(0), <<M5>>, now).pwm

\* C27: once shutdown() has started (shutting_down is set), on the
\* key-exit path, the exception path and the signal path alike, the run
\* loop hands no further command to the link (the only commands sent
\* from then on are the all-zero ones of the shutdown itself), the main
\* thread is never again inside the loop, and running is false and never
\* becomes true again.
C27_ShutdownIsFinal ==
    [][/\ shutting_down' => ~running'
       /\ shutting_down
          => /\ shutting_down'
             /\ lastCmd' = lastCmd
             /\ pc' \notin TryRegion \cup {"idle", "connect", "arm", "ready"}
             /\ \A i \in (Len(sdLog) + 1)..Len(sdLog') :
                  sdLog'[i] \in {"zero", "disarm", "disconnect",
                                 "cam_release", "destroy"}]_vars

\* A SIGINT arrived after the second cycle had dispatched a non-neutral
\* command: the shutdown has run in the handler, the process has exited,
\* and that command is still the last one the loop handed to the link.
C27_Witness ==
    /\ pc = "exited" /\ sigs = 1 /\ sdCalls = 2
    /\ shutting_down /\ ~running
    /\ cycles = 2 /\ lastCmd = Channels(ret)
    /\ lastCmd[5] = 1700
    /\ Has(sdLog, "zero") /\ Has(sdLog, "disconnect")

\* C28: every exit from the Running loop (the loop-exit key or an
\* exception, both through the finally block, and SIGINT through the
\* handler) runs the shutdown sequence exactly once before run() returns
\* or the process exits: no run stops with running still set, the body
\* of shutdown() behind its guard is entered once and never twice
\* however many calls are made, the link is disconnected at most once,
\* and when no signal arrived after the sequence had begun the stopped
\* run has disconnected the link exactly once and called the camera
\* release.
C28_ShutdownExactlyOnce ==
    /\ sdRuns <= 1 /\ sdRuns <= sdCalls
    /\ Count(sdLog, "disconnect") <= 1
    /\ Stopped => ~running
    /\ (Stopped /\ sdStart.running)
       => /\ sdRuns = 1 /\ shutting_down
          /\ (sigs = 0 \/ (sigs = 1 /\ ctx = "handler"))
             => /\ Count(sdLog, "disconnect") = 1
                /\ Has(sdLog, "cam_release")
                /\ sdLog[1] = "zero"

\* The loop was left through the finally block after one computed cycle
\* and run() has returned; a further shutdown() call was made, and of the
\* two calls one has run the sequence.
C28_Witness ==
    /\ pc = "returned" /\ sigs = 0 /\ ctx = "run"
    /\ sdStart.running /\ ~running /\ shutting_down
    /\ cycles = 1 /\ computes = 1
    /\ sdCalls = 2 /\ sdRuns = 1
    /\ sdLog = <<"zero", "disarm", "zero", "disconnect", "cam_release",
                 "destroy">>

\* C29: every camera handle run() has acquired is released before run()
\* returns, also when the camera opened and connect() then failed: once
\* run() has returned, a handle that was opened has had release() called
\* on it.
C29_CameraReleasedOnReturn ==
    (pc = "returned" /\ cap # "none")
    => Has(sdLog, "cam_release")

\* C30: in every reachable state of the link object armed = true implies
\* connected = true; in particular after disconnect() has returned, and
\* after a connect() that failed, connected and armed are both false,
\* whatever the outcome of the disarm attempt made inside disconnect().
C30_ArmedImpliesConnected ==
    /\ pix.armed => pix.connected
    /\ Has(sdLog, "disconnect") => (~pix.connected /\ ~pix.armed)
    /\ (pc = "returned" /\ ~sdStart.begun /\ cap = "open")
       => (~pix.connected /\ ~pix.armed)

====
